---- MODULE Spec2Model ----
\* Model of python_scraper/web_scraper.py: VideoScraper, the depth-bounded,
\* domain-scoped recursive crawl (scrape_page), the progress reporter
\* (update_progress) and the start of the download phase (download_videos).
\*
\* The recursion of scrape_page is an explicit call stack of frames.  The web
\* is uncontrolled input: the outcome of a fetch (failure, or the page's
\* matching elements and anchors) is chosen when the fetch is issued.  Every
\* write of progress.json / the results file may fail (IOError).
\* fetchLog and linkLog are history: they record what the run did.
EXTENDS Integers, Sequences, FiniteSets, TLC

\* ---------------------------------------------------------------- bounds
\* Largest max_depth a run is started with.
MaxDepthBound == 2
\* Most anchors on one page.
MaxLinks == 2
\* Most elements matched on one page, over all selectors.
MaxElems == 2

\* ------------------------------------------------------- strings and URLs
\* A string is a sequence of one-character strings.
LowerOf ==
    [A |-> "a", B |-> "b", C |-> "c", D |-> "d", E |-> "e", F |-> "f",
     G |-> "g", H |-> "h", I |-> "i", J |-> "j", K |-> "k", L |-> "l",
     M |-> "m", N |-> "n", O |-> "o", P |-> "p", Q |-> "q", R |-> "r",
     S |-> "s", T |-> "t", U |-> "u", V |-> "v", W |-> "w", X |-> "x",
     Y |-> "y", Z |-> "z"]

\* str.lower()
Lower(s) ==
    [i \in 1..Len(s) |-> IF s[i] \in DOMAIN LowerOf THEN LowerOf[s[i]] ELSE s[i]]

\* sub in s
Contains(s, sub) ==
    \E i \in 1..(Len(s) - Len(sub) + 1) : SubSeq(s, i, i + Len(sub) - 1) = sub

\* s.endswith(sub)
EndsWith(s, sub) ==
    /\ Len(s) >= Len(sub)
    /\ SubSeq(s, Len(s) - Len(sub) + 1, Len(s)) = sub

Scheme == <<"h", "t", "t", "p", ":", "/", "/">>

\* An absolute URL is [netloc, path]; its text is scheme://netloc path.
UrlStr(u) == Scheme \o u.netloc \o u.path

\* urlparse(u).netloc
Netloc(u) == u.netloc

BaseNetloc == <<"a">>
OtherNetloc == <<"b">>
RootPath == <<"/">>
PagePaths == {<<"/">>, <<"/", "p">>, <<"/", "q">>}
\* a path that ends in a non-page extension, and one that only contains one
MediaPaths == {<<"/", "v", ".", "M", "P", "4">>}
DecoyPaths == {<<"/", "r", ".", "p", "d", "f", "x">>}

\* self.base_url
base_url == [netloc |-> BaseNetloc, path |-> RootPath]

\* An href is absolute (its own netloc) or an absolute-path reference
\* (netloc empty).
Hrefs ==
    [netloc : {<<>>}, path : PagePaths \cup MediaPaths \cup DecoyPaths]
        \cup [netloc : {OtherNetloc}, path : {<<"/", "p">>}]

\* urljoin(base, href)
urljoin(base, href) ==
    IF href.netloc = <<>>
        THEN [netloc |-> base.netloc, path |-> href.path]
        ELSE [netloc |-> href.netloc, path |-> href.path]

\* ['.jpg', '.png', '.mp4', '.mp3', '.pdf']
NonPageExts ==
    {<<".", "j", "p", "g">>, <<".", "p", "n", "g">>, <<".", "m", "p", "4">>,
     <<".", "m", "p", "3">>, <<".", "p", "d", "f">>}

\* HasNonPageExt without .lower()
HasNonPageExt_CaseSensitive(u) == \E ext \in NonPageExts : Contains(UrlStr(u), ext)

\* any(ext in absolute_url.lower() for ext in [...])
HasNonPageExt(u) == \E ext \in NonPageExts : Contains(Lower(UrlStr(u)), ext)

\* SameDomain without the netloc comparison
SameDomain_Any(u) == TRUE

\* urlparse(absolute_url).netloc == urlparse(self.base_url).netloc
SameDomain(u) == Netloc(u) = Netloc(base_url)

\* ------------------------------------------------------------ page input
\* len(video_selectors)
NumSelectors == 5

NoHref == [netloc |-> <<>>, path |-> <<>>]

\* hrefs carried by matched elements
VideoHrefs == [netloc : {<<>>}, path : {<<"/", "p">>} \cup MediaPaths]

\* A matched element: the selector whose find_all returns it and the href of
\* its anchor (NoHref: no anchor, extract_video_data returns None).
Elems == [sel : 1..NumSelectors, href : VideoHrefs \cup {NoHref}]

SeqsUpTo(S, n) == UNION {[1..k -> S] : k \in 0..n}

\* The matched elements of a fetched page, in document order.
PageElems == SeqsUpTo(Elems, MaxElems)

\* len(soup.find_all('a', href=True)) of a fetched page; the href of each
\* anchor is drawn from Hrefs when the link loop reads it.
PageLinkCounts == 0..MaxLinks

\* ------------------------------------------------------------- extraction
RECURSIVE SelectSeq2(_, _)
\* soup.find_all(**selector): the elements of the selector, in document order
SelectSeq2(elems, s) ==
    IF elems = <<>> THEN <<>>
    ELSE IF Head(elems).sel = s
        THEN <<Head(elems)>> \o SelectSeq2(Tail(elems), s)
        ELSE SelectSeq2(Tail(elems), s)

find_all(elems, s) == SelectSeq2(elems, s)

None == [none |-> TRUE]

\* extract_video_data(element, base_url): the record's url, or None
extract_video_data(elem, page_url) ==
    IF elem.href = NoHref THEN None ELSE [url |-> urljoin(page_url, elem.href)]

RECURSIVE ScanElements(_, _)
\* the inner loop: append the first element that has a url, then break
ScanElements(elements, page_url) ==
    IF elements = <<>> THEN <<>>
    ELSE LET video_data == extract_video_data(Head(elements), page_url)
         IN IF video_data # None
                THEN <<video_data>>
                ELSE ScanElements(Tail(elements), page_url)

RECURSIVE ScanSelectors(_, _, _)
\* the outer loop over video_selectors, from selector s on
ScanSelectors(elems, page_url, s) ==
    IF s > NumSelectors THEN <<>>
    ELSE ScanElements(find_all(elems, s), page_url)
            \o ScanSelectors(elems, page_url, s + 1)

\* videos_on_page after the selector loop
VideosOnPage(elems, page_url) == ScanSelectors(elems, page_url, 1)

RECURSIVE Dedup(_, _)
\* unique_videos: first occurrence of each url, in order
Dedup(videos, seen_urls) ==
    IF videos = <<>> THEN <<>>
    ELSE IF Head(videos).url \in seen_urls
        THEN Dedup(Tail(videos), seen_urls)
        ELSE <<Head(videos)>> \o Dedup(Tail(videos), seen_urls \cup {Head(videos).url})

UniqueVideos(videos) == Dedup(videos, {})

\* Every url a page can have.
Urls == [netloc : {BaseNetloc, OtherNetloc}, path : PagePaths \cup MediaPaths \cup DecoyPaths]

\* <<url, unique_videos>>: the lists a page at url can yield, over all PageElems.
PageOutcomes ==
    {<<url, UniqueVideos(VideosOnPage(elems, url))>> : url \in Urls, elems \in PageElems}

\* videos_found after self.videos_found.extend(unique_videos)
ExtendFound(found, unique_videos) == found \o unique_videos

\* ------------------------------------------------------------------ state
VARIABLES
    max_depth,      \* the max_depth argument of the run
    visited_urls,   \* self.visited_urls
    videos_found,   \* self.videos_found (RunOutput)
    progress,       \* self.progress (CrawlState)
    stack,          \* the active scrape_page calls, innermost last
    run,            \* "starting", "crawling", "returned", "raised" (the initial
                    \* scrape_page call raised), "downloading", "done",
                    \* "download_raised"
    fetchLog,       \* every session.get issued: <<[url, depth, ok], ...>>
    linkLog,        \* the link the link loop read last: [url, depth, fate]
    futures,        \* download phase: the submitted videos not yet started
    in_flight,      \* download phase: the number of videos workers are fetching
    scan,           \* one page pass taken alone: [pc, soup, url, videos_on_page]
    world           \* what the run meets: which operations may fail, and the
                    \* pages of the site when they are fixed before the run

vars ==
    <<max_depth, visited_urls, videos_found, progress, stack, run, fetchLog, linkLog,
      futures, in_flight, scan, world>>

NoScan == [pc |-> "none", soup |-> <<>>, url |-> base_url, videos_on_page |-> <<>>]

NoLink == [url |-> base_url, depth |-> 0, fate |-> "none"]

\* self.progress as __init__ leaves it (the time stamps are left out)
InitProgress ==
    [status |-> "starting", pages_scraped |-> 0, videos_found |-> 0,
     videos_downloaded |-> 0, errors |-> 0]

\* self.progress.update(kwargs)
Merge(p, kwargs) ==
    [k \in DOMAIN p \cup DOMAIN kwargs |-> IF k \in DOMAIN kwargs THEN kwargs[k] ELSE p[k]]

\* Any page content, any link, and any failure: of a fetch, of a write of
\* progress.json or of the results file.
AnyWorld == [faults |-> "any", static |-> FALSE, web |-> <<>>]

\* open(progress_file, 'w') / json.dump: the write succeeds or raises
WriteOutcomes == IF world.faults = "any" THEN BOOLEAN ELSE {TRUE}

\* session.get / raise_for_status may fail
FetchMayFail == world.faults \in {"any", "fetch"}

\* soup.find_all('a', href=True): the number of anchors of the page at url
LinkCountsOf(url) ==
    IF world.static THEN {Len(world.web[url].links)} ELSE PageLinkCounts

\* link['href'] of the anchor the loop reads when left anchors remain
HrefsAt(url, left) ==
    IF world.static
        THEN {world.web[url].links[Len(world.web[url].links) - left + 1]}
        ELSE Hrefs

Init ==
    /\ world = AnyWorld
    /\ max_depth \in 0..MaxDepthBound
    /\ visited_urls = {}
    /\ videos_found = <<>>
    /\ progress = InitProgress
    /\ stack = <<>>
    /\ run = "starting"
    /\ fetchLog = <<>>
    /\ linkLog = NoLink
    /\ futures = <<>>
    /\ in_flight = 0
    /\ scan = NoScan

\* ------------------------------------------------------------ scrape_page
Top == stack[Len(stack)]

SetTop(f) == [stack EXCEPT ![Len(stack)] = f]

\* links: the anchors the link loop has still to read
NewFrame(url, depth) == [url |-> url, depth |-> depth, pc |-> "start", links |-> 0, err |-> ""]

\* ChildDepth passing depth on unchanged
ChildDepth_Same(depth) == depth

\* depth + 1 in the recursive call
ChildDepth(depth) == depth + 1

\* EntryGuard without the visited test
EntryGuard_DepthOnly(url, depth) == depth > max_depth

\* if depth > max_depth or url in self.visited_urls: return
EntryGuard(url, depth) == depth > max_depth \/ url \in visited_urls

\* if depth < max_depth
MayFollow(depth) == depth < max_depth

\* The raise of an exception e inside the try block of the innermost call.
Raise(e) == SetTop([Top EXCEPT !.pc = "except", !.err = e])

\* The innermost call returns to its caller, which goes on with its link loop.
ReturnTop ==
    /\ stack' = SubSeq(stack, 1, Len(stack) - 1)
    /\ run' = IF Len(stack) = 1 THEN "returned" ELSE run

\* An exception leaves the innermost call: it is raised at the call site
\* inside the caller's try block, or leaves the initial call.
PropagateTop(e) ==
    /\ stack' = IF Len(stack) = 1 THEN <<>>
                ELSE [SubSeq(stack, 1, Len(stack) - 1) EXCEPT
                        ![Len(stack) - 1] = [@ EXCEPT !.pc = "except", !.err = e]]
    /\ run' = IF Len(stack) = 1 THEN "raised" ELSE run

\* The initial call scrape_page(base_url, 0, max_depth).
StartCrawl ==
    /\ run = "starting"
    /\ IF EntryGuard(base_url, 0)
        THEN /\ run' = "returned"
             /\ UNCHANGED <<visited_urls, stack>>
        ELSE /\ run' = "crawling"
             /\ visited_urls' = visited_urls \cup {base_url}
             /\ stack' = <<NewFrame(base_url, 0)>>
    /\ UNCHANGED <<world, max_depth, videos_found, progress, fetchLog, linkLog, futures, in_flight, scan>>

\* update_progress(status='scraping_page', current_url=url); the write of
\* progress.json succeeds (written) or raises.
BeginPage ==
    /\ run = "crawling" /\ Top.pc = "start"
    /\ progress' = Merge(progress, [status |-> "scraping_page", current_url |-> Top.url])
    /\ \E written \in WriteOutcomes :
        stack' = IF written THEN SetTop([Top EXCEPT !.pc = "fetch"]) ELSE Raise("io")
    /\ UNCHANGED <<world, max_depth, visited_urls, videos_found, run, fetchLog, linkLog, futures, in_flight, scan>>

\* session.get + raise_for_status fail.
FetchFail ==
    /\ run = "crawling" /\ Top.pc = "fetch"
    /\ FetchMayFail
    /\ fetchLog' = Append(fetchLog, [url |-> Top.url, depth |-> Top.depth, ok |-> FALSE])
    /\ stack' = Raise("fetch")
    /\ UNCHANGED <<world, max_depth, visited_urls, videos_found, progress, run, linkLog, futures, in_flight, scan>>

\* session.get succeeds; the page is parsed, the selectors are scanned, the
\* page's videos are deduplicated and appended to videos_found.
FetchOk ==
    /\ run = "crawling" /\ Top.pc = "fetch"
    /\ fetchLog' = Append(fetchLog, [url |-> Top.url, depth |-> Top.depth, ok |-> TRUE])
    /\ IF world.static
        THEN videos_found' =
                ExtendFound(videos_found,
                            UniqueVideos(VideosOnPage(world.web[Top.url].soup, Top.url)))
        ELSE \E outcome \in PageOutcomes :
                /\ outcome[1] = Top.url
                /\ videos_found' = ExtendFound(videos_found, outcome[2])
    /\ stack' = SetTop([Top EXCEPT !.pc = "report"])
    /\ UNCHANGED <<world, max_depth, visited_urls, progress, run, linkLog, futures, in_flight, scan>>

\* PageReport counting only the videos added since the last report
PageReport_PageCount(p, found) ==
    [pages_scraped |-> p.pages_scraped + 1, videos_found |-> Len(found) - p.videos_found]

\* the kwargs pages_scraped=self.progress['pages_scraped'] + 1,
\* videos_found=len(self.videos_found)
PageReport(p, found) == [pages_scraped |-> p.pages_scraped + 1, videos_found |-> Len(found)]

\* ErrorReport recording the message without counting the error
ErrorReport_Uncounted(p, e) == [errors |-> p.errors, last_error |-> e]

\* the kwargs errors=self.progress['errors'] + 1, last_error=str(e)
ErrorReport(p, e) == [errors |-> p.errors + 1, last_error |-> e]

\* update_progress(pages_scraped=.., videos_found=..)
ReportPage ==
    /\ run = "crawling" /\ Top.pc = "report"
    /\ progress' = Merge(progress, PageReport(progress, videos_found))
    /\ \E written \in WriteOutcomes :
        stack' = IF written THEN SetTop([Top EXCEPT !.pc = "save"]) ELSE Raise("io")
    /\ UNCHANGED <<world, max_depth, visited_urls, videos_found, run, fetchLog, linkLog, futures, in_flight, scan>>

\* self.save_results(), then the test depth < max_depth and
\* links = soup.find_all('a', href=True).  The body of save_results is not
\* part of the source: its write of the results file succeeds or raises.
SaveResults ==
    /\ run = "crawling" /\ Top.pc = "save"
    /\ \E written \in WriteOutcomes :
        IF ~written THEN stack' = Raise("io") /\ run' = run
        ELSE IF MayFollow(Top.depth)
            THEN /\ \E links \in LinkCountsOf(Top.url) :
                        stack' = SetTop([Top EXCEPT !.pc = "links", !.links = links])
                 /\ run' = run
        ELSE ReturnTop
    /\ UNCHANGED <<world, max_depth, visited_urls, videos_found, progress, fetchLog, linkLog, futures, in_flight, scan>>

\* What becomes of a link the loop reads: dropped by a filter ("offsite",
\* "nonpage"), or passed to scrape_page, which returns at once ("guard") or
\* marks it visited and goes on ("entered").
Fate(absolute_url, depth) ==
    IF ~SameDomain(absolute_url) THEN "offsite"
    ELSE IF HasNonPageExt(absolute_url) THEN "nonpage"
    ELSE IF EntryGuard(absolute_url, depth) THEN "guard"
    ELSE "entered"

\* One turn of the link loop: resolve the href, filter it, and call
\* scrape_page(absolute_url, depth + 1, max_depth), which returns at once
\* when its guard holds and otherwise marks the url visited.
FollowLink ==
    /\ run = "crawling" /\ Top.pc = "links" /\ Top.links > 0
    /\ \E href \in HrefsAt(Top.url, Top.links) :
        LET absolute_url == urljoin(Top.url, href)
            depth == ChildDepth(Top.depth)
            fate == Fate(absolute_url, depth)
            rest == [Top EXCEPT !.links = @ - 1]
        IN /\ linkLog' = [url |-> absolute_url, depth |-> depth, fate |-> fate]
           /\ IF fate = "entered"
                THEN /\ visited_urls' = visited_urls \cup {absolute_url}
                     /\ stack' = Append(SetTop(rest), NewFrame(absolute_url, depth))
                ELSE /\ stack' = SetTop(rest)
                     /\ UNCHANGED visited_urls
    /\ UNCHANGED <<world, max_depth, videos_found, progress, run, fetchLog, futures, in_flight, scan>>

\* The link loop is over: the call returns.
ReturnPage ==
    /\ run = "crawling" /\ Top.pc = "links" /\ Top.links = 0
    /\ ReturnTop
    /\ UNCHANGED <<world, max_depth, visited_urls, videos_found, progress, fetchLog, linkLog, futures, in_flight, scan>>

\* except Exception as e: update_progress(errors=..+1, last_error=str(e)).
\* When that write raises too, the exception leaves the call.
HandleError ==
    /\ run = "crawling" /\ Top.pc = "except"
    /\ progress' = Merge(progress, ErrorReport(progress, Top.err))
    /\ \E written \in WriteOutcomes :
        IF written THEN ReturnTop ELSE PropagateTop("io")
    /\ UNCHANGED <<world, max_depth, visited_urls, videos_found, fetchLog, linkLog, futures, in_flight, scan>>

\* -------------------------------------------------------- download_videos
\* concurrent: int = 3
concurrent == 3

\* self.videos_found[:20]
DownloadLimit == 20

Min(a, b) == IF a < b THEN a ELSE b

\* FirstVideos without the slice: every video found
FirstVideos_All(found) == [i \in 1..Len(found) |-> i]

\* for video in self.videos_found[:20], as indexes into videos_found
FirstVideos(found) == [i \in 1..Min(Len(found), DownloadLimit) |-> i]

\* DownloadVideos without the test for an empty videos_found
DownloadVideos_NoEmptyCheck ==
    /\ run = "returned"
    /\ \E written \in WriteOutcomes :
        /\ progress' = Merge(progress, [status |-> "downloading_videos",
                                        total_to_download |-> Len(videos_found)])
        /\ run' = IF written THEN "downloading" ELSE "download_raised"
        /\ futures' = IF written THEN FirstVideos(videos_found) ELSE futures
    /\ UNCHANGED <<world, max_depth, visited_urls, videos_found, stack, fetchLog, linkLog, in_flight, scan>>

\* download_videos up to the submission loop: the empty case, the status
\* report, and the submission of the first DownloadLimit videos (by index).
DownloadVideos ==
    /\ run = "returned"
    /\ \E written \in WriteOutcomes :
        IF videos_found = <<>>
            THEN /\ progress' = Merge(progress, [status |-> "no_videos_found"])
                 /\ run' = IF written THEN "done" ELSE "download_raised"
                 /\ UNCHANGED futures
            ELSE /\ progress' = Merge(progress, [status |-> "downloading_videos",
                                                 total_to_download |-> Len(videos_found)])
                 /\ run' = IF written THEN "downloading" ELSE "download_raised"
                 /\ futures' = IF written THEN FirstVideos(videos_found) ELSE futures
    /\ UNCHANGED <<world, max_depth, visited_urls, videos_found, stack, fetchLog, linkLog, in_flight, scan>>

\* WorkerFree of a pool without a limit
WorkerFree_Always(running) == TRUE

\* max_workers=concurrent: the pool starts a media fetch only while fewer
\* than concurrent of them run
WorkerFree(running) == running < concurrent

\* ThreadPoolExecutor(max_workers=concurrent): a free worker takes the
\* oldest submitted video.
WorkerStart ==
    /\ run = "downloading" /\ futures # <<>>
    /\ WorkerFree(in_flight)
    /\ in_flight' = in_flight + 1
    /\ futures' = Tail(futures)
    /\ UNCHANGED <<world, max_depth, visited_urls, videos_found, progress, stack, run, fetchLog, linkLog, scan>>

\* CompletionReport computed from the counters as they were when the
\* download phase began: an increment made since then is lost
CompletionReport_Stale(p, success) ==
    IF success
        THEN [videos_downloaded |-> 1]
        ELSE [errors |-> p.errors + 1, last_error |-> "download"]

\* the kwargs a completed media fetch reports: videos_downloaded + 1 on
\* success, errors + 1 and last_error on failure (Download Coordinator)
CompletionReport(p, success) ==
    IF success
        THEN [videos_downloaded |-> p.videos_downloaded + 1]
        ELSE [errors |-> p.errors + 1, last_error |-> "download"]

\* A media fetch completes; its result is counted through update_progress
\* (the source ends with the submission loop; this step follows the design
\* of the Download Coordinator).
WorkerDone ==
    /\ run = "downloading" /\ in_flight > 0
    /\ in_flight' = in_flight - 1
    /\ \E success \in BOOLEAN :
        progress' = Merge(progress, CompletionReport(progress, success))
    /\ UNCHANGED <<world, max_depth, visited_urls, videos_found, stack, run, fetchLog, linkLog, futures, scan>>

\* All submitted videos are done: the executor block is left.
DownloadsDone ==
    /\ run = "downloading" /\ futures = <<>> /\ in_flight = 0
    /\ run' = "done"
    /\ UNCHANGED <<world, max_depth, visited_urls, videos_found, progress, stack, fetchLog, linkLog,
                   futures, in_flight, scan>>

\* ------------------------------------------------- one page pass, alone
\* The page pass of scrape_page (selector scan, deduplication, extend) on
\* one parsed page, its elements drawn from PageElems.
ScanInit ==
    /\ world = AnyWorld
    /\ max_depth = 0
    /\ visited_urls = {base_url}
    /\ videos_found = <<>>
    /\ progress = InitProgress
    /\ stack = <<>>
    /\ run = "scanning"
    /\ fetchLog = <<>>
    /\ linkLog = NoLink
    /\ futures = <<>>
    /\ in_flight = 0
    /\ \E soup \in PageElems :
        scan = [pc |-> "parsed", soup |-> soup, url |-> base_url, videos_on_page |-> <<>>]

\* the loop over video_selectors
ScanPage ==
    /\ scan.pc = "parsed"
    /\ scan' = [scan EXCEPT !.pc = "scanned",
                            !.videos_on_page = VideosOnPage(scan.soup, scan.url)]
    /\ UNCHANGED <<world, max_depth, visited_urls, videos_found, progress, stack, run, fetchLog,
                   linkLog, futures, in_flight>>

\* the deduplication and self.videos_found.extend(unique_videos)
ExtendPage ==
    /\ scan.pc = "scanned"
    /\ videos_found' = ExtendFound(videos_found, UniqueVideos(scan.videos_on_page))
    /\ scan' = [scan EXCEPT !.pc = "extended"]
    /\ UNCHANGED <<world, max_depth, visited_urls, progress, stack, run, fetchLog, linkLog,
                   futures, in_flight>>

ScanNext == ScanPage \/ ExtendPage

ScanSpec == ScanInit /\ [][ScanNext]_vars

Next ==
    \/ StartCrawl
    \/ BeginPage
    \/ FetchFail
    \/ FetchOk
    \/ ReportPage
    \/ SaveResults
    \/ FollowLink
    \/ ReturnPage
    \/ HandleError
    \/ DownloadVideos
    \/ WorkerStart
    \/ WorkerDone
    \/ DownloadsDone

Spec == Init /\ [][Next]_vars

\* --------------------------------------------- the download phase, alone
\* download_videos after a crawl that found up to MaxVideos videos: the
\* crawl is over (the initial scrape_page call returned) with n videos in
\* videos_found, each page contributing at most one video per selector.
MaxVideos == 21

\* the k-th page of that crawl: the base url, then /p, /pp, ...
PageAt(k) ==
    [netloc |-> BaseNetloc, path |-> [c \in 1..k |-> IF c = 1 THEN "/" ELSE "p"]]

\* its i-th video: /v, /vv, ...
VideoAt(i) ==
    [url |-> [netloc |-> BaseNetloc, path |-> [c \in 1..(i + 1) |-> IF c = 1 THEN "/" ELSE "v"]]]

\* the least number of pages that yield n videos
PagesFor(n) == IF n = 0 THEN 1 ELSE (n + NumSelectors - 1) \div NumSelectors

DownloadInit ==
    \E n \in 0..MaxVideos, failed \in BOOLEAN :
        LET pages == PagesFor(n)
            fetched == pages + (IF failed THEN 1 ELSE 0)
            counted == [status |-> "scraping_page", current_url |-> PageAt(fetched),
                        pages_scraped |-> pages, videos_found |-> n]
        IN /\ world = AnyWorld
           /\ max_depth = 1
           /\ visited_urls = {PageAt(k) : k \in 1..fetched}
           /\ videos_found = [i \in 1..n |-> VideoAt(i)]
           /\ progress = IF failed
                            THEN Merge(Merge(InitProgress, counted),
                                       [errors |-> 1, last_error |-> "fetch"])
                            ELSE Merge(InitProgress, counted)
           /\ stack = <<>>
           /\ run = "returned"
           /\ fetchLog = [k \in 1..fetched |->
                            [url |-> PageAt(k), depth |-> IF k = 1 THEN 0 ELSE 1,
                             ok |-> k <= pages]]
           /\ linkLog = NoLink
           /\ futures = <<>>
           /\ in_flight = 0
           /\ scan = NoScan

DownloadNext ==
    \/ DownloadVideos
    \/ WorkerStart
    \/ WorkerDone
    \/ DownloadsDone

DownloadSpec == DownloadInit /\ [][DownloadNext]_vars

\* ------------------------------------------- a crawl of a site fixed before
\* The crawl of a site whose pages and links are fixed before the run, no
\* fetch and no write failing: four pages of the base netloc with up to
\* MaxLinks links each, MaxWebLinks links in all, and no video element.
MaxWebLinks == 4

SitePaths == PagePaths \cup {<<"/", "s">>}

SitePages == [netloc : {BaseNetloc}, path : SitePaths]

SiteHrefs == [netloc : {<<>>}, path : SitePaths]

RECURSIVE TotalLinks(_, _)
\* the number of links of the pages in urls
TotalLinks(web, urls) ==
    IF urls = {} THEN 0
    ELSE LET u == CHOOSE x \in urls : TRUE
         IN Len(web[u].links) + TotalLinks(web, urls \ {u})

Sites ==
    {web \in [SitePages -> [soup : {<<>>}, links : SeqsUpTo(SiteHrefs, MaxLinks)]] :
        TotalLinks(web, SitePages) <= MaxWebLinks}

GraphInit ==
    /\ \E web \in Sites : world = [faults |-> "none", static |-> TRUE, web |-> web]
    /\ max_depth \in 0..MaxDepthBound
    /\ visited_urls = {}
    /\ videos_found = <<>>
    /\ progress = InitProgress
    /\ stack = <<>>
    /\ run = "starting"
    /\ fetchLog = <<>>
    /\ linkLog = NoLink
    /\ futures = <<>>
    /\ in_flight = 0
    /\ scan = NoScan

GraphNext ==
    \/ StartCrawl
    \/ BeginPage
    \/ FetchOk
    \/ ReportPage
    \/ SaveResults
    \/ FollowLink
    \/ ReturnPage

GraphSpec == GraphInit /\ [][GraphNext]_vars

\* ------------------------------------ a crawl in which only fetches fail
\* The crawl alone, with any page content and any link, where a fetch may
\* fail and every write of progress.json and of the results file succeeds.
FetchFaultInit ==
    /\ world = [faults |-> "fetch", static |-> FALSE, web |-> <<>>]
    /\ max_depth \in 0..MaxDepthBound
    /\ visited_urls = {}
    /\ videos_found = <<>>
    /\ progress = InitProgress
    /\ stack = <<>>
    /\ run = "starting"
    /\ fetchLog = <<>>
    /\ linkLog = NoLink
    /\ futures = <<>>
    /\ in_flight = 0
    /\ scan = NoScan

CrawlNext ==
    \/ StartCrawl
    \/ BeginPage
    \/ FetchFail
    \/ FetchOk
    \/ ReportPage
    \/ SaveResults
    \/ FollowLink
    \/ ReturnPage
    \/ HandleError

FetchFaultSpec == FetchFaultInit /\ [][CrawlNext]_vars

\* ================================================================ claims
Urls_Of(videos) == {videos[i].url : i \in DOMAIN videos}

\* the lowercased text of u ends in one of the non-page extensions
EndsInNonPageExt(u) == \E ext \in NonPageExts : EndsWith(Lower(UrlStr(u)), ext)

FetchedUrls == {fetchLog[i].url : i \in DOMAIN fetchLog}

\* the urls that end in a non-page extension, and the others
NonPageUrls == UNION {IF EndsInNonPageExt(u) THEN {u} ELSE {} : u \in Urls}

PageUrls == UNION {IF EndsInNonPageExt(u) THEN {} ELSE {u} : u \in Urls}

\* C1: RunOutput (videos_found) never holds two entries with the same url,
\* also when the same url is extracted from two different pages.
C1_NoDuplicateUrls ==
    \A i, j \in DOMAIN videos_found :
        i # j => videos_found[i].url # videos_found[j].url

\* C2: no fetch is issued at a depth above max_depth; the root is fetched at
\* depth 0 and a page reached through a link of a page at depth d is handled
\* and fetched at depth d + 1.
C2_DepthBound ==
    /\ \A i \in DOMAIN fetchLog : fetchLog[i].depth <= max_depth
    /\ fetchLog # <<>> => fetchLog[1].url = base_url /\ fetchLog[1].depth = 0
    /\ \A i \in DOMAIN stack :
        /\ stack[i].depth = IF i = 1 THEN 0 ELSE stack[i - 1].depth + 1
        /\ stack[i].depth <= max_depth
        /\ stack[i].pc \in {"report", "save", "links"} =>
            \E k \in DOMAIN fetchLog :
                fetchLog[k].url = stack[i].url /\ fetchLog[k].depth = stack[i].depth

\* C2 witness: a run is over in which a page was fetched at depth 2, the
\* largest depth allowed, below a page at depth 1.
C2_Witness ==
    /\ run = "returned" /\ max_depth = 2
    /\ \E i, j \in DOMAIN fetchLog : fetchLog[i].depth = 1 /\ fetchLog[j].depth = 2

\* C3: a url is in VisitedSet before its fetch is issued, VisitedSet never
\* shrinks, it holds every url a fetch was attempted for, and no url is
\* fetched twice in a run.
C3_VisitedBeforeFetchOnce ==
    /\ [](/\ FetchedUrls \subseteq visited_urls
          /\ \A i \in DOMAIN stack : stack[i].url \in visited_urls
          /\ \A i, j \in DOMAIN fetchLog : i # j => fetchLog[i].url # fetchLog[j].url)
    /\ [][visited_urls \subseteq visited_urls']_vars

\* C3 witness: the link loop read a link to a url already fetched (a cycle
\* or a second link to it), and scrape_page returned at once for it.
C3_Witness ==
    /\ linkLog.fate = "guard"
    /\ linkLog.url \in FetchedUrls
    /\ linkLog.depth <= max_depth

\* C4: every url fetched has the netloc of the base url.
C4_SameNetlocOnly ==
    \A i \in DOMAIN fetchLog : Netloc(fetchLog[i].url) = Netloc(base_url)

\* C4 witness: a page below the root held a link to another host, and the
\* run went on to its end.
C4_Witness ==
    /\ linkLog.fate = "offsite" /\ linkLog.depth = 2
    /\ Netloc(linkLog.url) # Netloc(base_url)
    /\ run = "returned"

\* C5: a same-domain link whose url ends, case-insensitively, in .jpg, .png,
\* .mp4, .mp3 or .pdf is never passed to scrape_page and never fetched.
C5_NonPageNeverFollowed ==
    /\ visited_urls \cup FetchedUrls \subseteq PageUrls
    /\ \A i \in DOMAIN stack : stack[i].url \in PageUrls
    /\ (linkLog.fate # "none" /\ linkLog.url \in NonPageUrls) =>
            linkLog.fate \in {"offsite", "nonpage"}

\* C5 witness: the link loop read a same-domain link ending in .MP4 and
\* dropped it.
C5_Witness ==
    /\ linkLog.fate = "nonpage"
    /\ SameDomain(linkLog.url) /\ linkLog.url \in NonPageUrls
    /\ linkLog.url \notin visited_urls

FetchFailed == run = "crawling" /\ stack # <<>> /\ Top.pc = "except" /\ Top.err = "fetch"

\* C6: when a fetch has failed, handling it raises errors by exactly 1, sets
\* last_error, leaves pages_scraped and RunOutput alone, follows none of the
\* url's links, and returns to the caller, whose link loop goes on as after
\* a normal return.
C6_FetchFailureContained ==
    [][FetchFailed =>
        /\ progress'.errors = progress.errors + 1
        /\ "last_error" \in DOMAIN progress'
        /\ progress'.pages_scraped = progress.pages_scraped
        /\ videos_found' = videos_found
        /\ visited_urls' = visited_urls
        /\ stack' = SubSeq(stack, 1, Len(stack) - 1)
        /\ run' \in {"crawling", "returned"}]_vars

\* the selectors of soup with an element that has a url
Yielding(soup) == {s \in 1..NumSelectors : \E e \in DOMAIN soup : soup[e].sel = s /\ soup[e].href # NoHref}

\* the first of them
FirstYielding(soup) == CHOOSE s \in Yielding(soup) : \A t \in Yielding(soup) : s <= t

\* the urls of the elements of selector s that have one, in document order
UrlsOfSelector(soup, url, s) ==
    LET with_url == SelectSeq(find_all(soup, s), LAMBDA e : e.href # NoHref)
    IN [i \in DOMAIN with_url |-> urljoin(url, with_url[i].href)]

\* C7: in one page pass, once a heuristic has yielded a candidate no later
\* heuristic contributes: every candidate of the page comes from the first
\* heuristic that yields one.
C7_FirstHeuristicOnly ==
    (scan.pc = "scanned" /\ Yielding(scan.soup) # {}) =>
        Urls_Of(scan.videos_on_page) \subseteq
            {UrlsOfSelector(scan.soup, scan.url, FirstYielding(scan.soup))[i] :
                i \in 1..Len(UrlsOfSelector(scan.soup, scan.url, FirstYielding(scan.soup)))}

\* s has no repeated element
Distinct(s) == \A i, j \in DOMAIN s : i # j => s[i] # s[j]

\* C8: every element of the applied heuristic that has a url yields a
\* candidate: k matching elements with k distinct urls contribute k
\* candidates to RunOutput, in document order.
C8_EveryElementYields ==
    (scan.pc = "extended" /\ Yielding(scan.soup) # {}) =>
        LET urls == UrlsOfSelector(scan.soup, scan.url, FirstYielding(scan.soup))
        IN Distinct(urls) =>
            /\ Len(videos_found) >= Len(urls)
            /\ \A i \in DOMAIN urls : videos_found[i].url = urls[i]

\* C9: a failure while handling one page, a failed progress or results
\* write included, never aborts the crawl: no caller gives up links it has
\* still to read, and the initial scrape_page call does not raise.
C9_FailureNeverAborts ==
    /\ run # "raised"
    /\ \A i \in DOMAIN stack : ~(stack[i].pc = "except" /\ stack[i].links > 0)

Counters == {"pages_scraped", "videos_found", "videos_downloaded", "errors"}

\* C10: no step of a run lowers pages_scraped, videos_found,
\* videos_downloaded or errors.
C10_CountersMonotone ==
    [][\A c \in Counters : progress'[c] >= progress[c]]_vars

\* C10 witness: a run with page successes, a page failure and download
\* completions of both kinds is over, every counter raised.
C10_Witness ==
    /\ run = "done"
    /\ progress.pages_scraped >= 2 /\ progress.videos_found >= 2
    /\ progress.videos_downloaded >= 1 /\ progress.errors >= 2

\* C11: in every reachable state VisitedSet holds at least as many urls as
\* pages_scraped counts.
C11_VisitedAtLeastScraped ==
    Cardinality(visited_urls) >= progress.pages_scraped

\* C11 witness: a run is over with two pages scraped and a third url
\* visited whose handling failed.
C11_Witness ==
    /\ run = "returned"
    /\ progress.pages_scraped = 2
    /\ Cardinality(visited_urls) = 3

\* the position of url in the fetch log (0 when it was not fetched)
FetchIndex(url) ==
    IF url \in FetchedUrls
        THEN CHOOSE k \in DOMAIN fetchLog : fetchLog[k].url = url
        ELSE 0

\* C12: the crawl is sequential and depth-first: at most one page fetch is
\* in progress at any instant, every caller waits in its link loop while the
\* call it made runs, and a page's next link is taken only when everything
\* below its previous link is over, so that pages are fetched in depth-first
\* pre-order.
C12_SequentialDepthFirst ==
    /\ Cardinality({i \in DOMAIN stack : stack[i].pc = "fetch"}) <= 1
    /\ \A i \in DOMAIN stack :
        /\ i < Len(stack) => stack[i].pc = "links"
        /\ stack[i].depth = i - 1
        /\ i > 1 /\ FetchIndex(stack[i].url) # 0 =>
                /\ FetchIndex(stack[i - 1].url) # 0
                /\ FetchIndex(stack[i - 1].url) < FetchIndex(stack[i].url)
    /\ \A k \in DOMAIN fetchLog :
        k > 1 => fetchLog[k].depth <= fetchLog[k - 1].depth + 1
    /\ (stack # <<>> /\ Top.pc \in {"report", "save"}) =>
            fetchLog[Len(fetchLog)].url = Top.url

\* C12 witness: the root's first link led to a page whose own link loop ran
\* and ended, and only then the root's second link is being fetched.
C12_Witness ==
    /\ max_depth = 2 /\ Len(stack) = 2 /\ Top.pc = "fetch"
    /\ Len(fetchLog) = 2 /\ fetchLog[2].depth = 1
    /\ stack[1].links = 0
    /\ linkLog.fate = "entered" /\ linkLog.url = Top.url
    /\ Cardinality(visited_urls) = 3
    /\ progress.pages_scraped = 2 /\ progress.errors = 0

\* C13: when the download phase begins with RunOutput empty, it ends at
\* once: the status becomes no_videos_found, videos_downloaded stays 0, no
\* media fetch is submitted or started, and no counter changes.
C13_EmptyOutputNoDownload ==
    /\ []((videos_found = <<>> /\ run \in {"done", "download_raised"}) =>
            /\ progress.status = "no_videos_found"
            /\ progress.videos_downloaded = 0
            /\ futures = <<>> /\ in_flight = 0)
    /\ [][(run = "returned" /\ videos_found = <<>>) =>
            /\ run' \in {"done", "download_raised"}
            /\ progress'.status = "no_videos_found"
            /\ \A c \in Counters : progress'[c] = progress[c]
            /\ futures' = <<>> /\ in_flight' = 0]_vars

\* C13 witness: a crawl that scraped pages and met an error found no video,
\* and its download phase is over.
C13_Witness ==
    /\ run = "done" /\ videos_found = <<>>
    /\ progress.status = "no_videos_found"
    /\ progress.pages_scraped >= 2 /\ progress.errors >= 1

\* C14: with concurrency limit concurrent, however many videos were
\* submitted and however starts and completions interleave, never more than
\* concurrent media fetches are in flight.
C14_AtMostConcurrentInFlight ==
    in_flight <= concurrent

\* C14 witness: more videos were submitted than the limit; concurrent media
\* fetches are in flight and another video waits for a free worker.
C14_Witness ==
    /\ run = "downloading"
    /\ Len(videos_found) > concurrent
    /\ in_flight = concurrent /\ futures # <<>>

\* the number of videos download_videos may submit
SubmitCount == IF Len(videos_found) < DownloadLimit THEN Len(videos_found) ELSE DownloadLimit

\* C15: with RunOutput of length n > 0, exactly the first min(n, 20) videos
\* are submitted as media fetches, in RunOutput order, and none beyond the
\* 20th: the submission queue is 1, 2, .., min(n, 20), and what is left of
\* it while workers take videos is always its tail.
C15_FirstTwentyInOrder ==
    /\ [](run \in {"downloading", "done"} =>
            \A i \in DOMAIN futures :
                /\ futures[i] = SubmitCount - Len(futures) + i
                /\ futures[i] <= DownloadLimit /\ futures[i] \in DOMAIN videos_found)
    /\ [][(run = "returned" /\ run' = "downloading") =>
            /\ Len(futures') = SubmitCount
            /\ \A i \in DOMAIN futures' : futures'[i] = i]_vars

\* C15 witness: more than 20 videos were found, 20 were submitted and every
\* one of them has completed.
C15_Witness ==
    /\ run = "done" /\ Len(videos_found) > DownloadLimit
    /\ futures = <<>>
    /\ progress.videos_downloaded + progress.errors >= DownloadLimit

\* the errors the crawl counted before the download phase: the visited urls
\* that were not scraped
CrawlErrors == Cardinality(visited_urls) - progress.pages_scraped

\* the media fetches that have completed
CompletedUnits == SubmitCount - Len(futures) - in_flight

C17_OnlyExtensionEndingsDropped ==
    linkLog.fate # "none" =>
        /\ (SameDomain(linkLog.url) /\ linkLog.url \in PageUrls) =>
                linkLog.fate \in {"guard", "entered"}
        /\ linkLog.fate = "nonpage" => linkLog.url \in NonPageUrls

\* the urls of the link graph that a crawl from base_url can be handed
GraphUrls == {u \in Urls : SameDomain(u)}

\* C18: whatever the links (cycles and self-links included) and whichever
\* fetches fail, the initial scrape_page call ends by returning, never by
\* raising; no call is entered above max_depth or for a visited url, and the
\* fetches issued number at most the distinct urls of the graph.
C18_InitialCallReturns ==
    /\ run # "raised"
    /\ Len(fetchLog) <= Cardinality(GraphUrls)
    /\ Len(stack) <= max_depth + 1
    /\ Len(stack) <= Cardinality(visited_urls)

\* the urls the pages in urls link to
LinkedFrom(urls) ==
    UNION {{urljoin(u, world.web[u].links[i]) : i \in DOMAIN world.web[u].links} : u \in urls}

RECURSIVE Within(_)
\* the urls reachable from the base url by a chain of at most k links
Within(k) ==
    IF k = 0 THEN {base_url} ELSE Within(k - 1) \cup LinkedFrom(Within(k - 1))

\* C19: when no fetch fails the crawl is complete up to the depth bound:
\* once the initial call has returned, every same-domain page reachable from
\* the root by a chain of at most max_depth links has been fetched, whatever
\* the order of the links on the pages.
C19_CompleteUpToDepth ==
    (world.static /\ run = "returned" /\ progress.errors = 0) =>
        Within(max_depth) \subseteq FetchedUrls

\* the fetches that succeeded
SuccessfulFetches == {i \in DOMAIN fetchLog : fetchLog[i].ok}

\* C20: every visited url is accounted for exactly once: when the initial
\* scrape_page call has returned and nothing but fetches failed,
\* pages_scraped + errors is the size of VisitedSet, pages_scraped is the
\* number of successful fetches, and the videos_found counter is the length
\* of RunOutput.
C20_EveryVisitedAccounted ==
    (world.faults # "any" /\ run = "returned") =>
        /\ progress.pages_scraped + progress.errors = Cardinality(visited_urls)
        /\ progress.pages_scraped = Cardinality(SuccessfulFetches)
        /\ progress.videos_found = Len(videos_found)

\* C20 witness: a crawl returned after two pages were scraped, a third
\* fetch failed, and videos were found.
C20_Witness ==
    /\ world.faults = "fetch" /\ run = "returned"
    /\ progress.pages_scraped = 2 /\ progress.errors = 1
    /\ Cardinality(visited_urls) = 3
    /\ Len(videos_found) >= 2

====
